---------------------------- MODULE Spec2Model ----------------------------
(***************************************************************************)
(* A model of travisfailed.py: the log segmenter (parse_log), the failure  *)
(* grepper (grep_log_for_tests), the per-job loop and reports of main, the  *)
(* on-disk log cache and the cross-job differ                              *)
(* (compare_failures_with_tool).                                           *)
(*                                                                         *)
(* Text is modelled character by character: a string is a sequence of      *)
(* one-character strings, a line list is a sequence of such strings.        *)
(***************************************************************************)
EXTENDS Integers, Sequences, FiniteSets, TLC

(***************************************************************************)
(* Bounds of the model.                                                    *)
(***************************************************************************)
MaxLogLen == 5
MaxGrepLen == 3
NumJobs == 2
MaxDiffCap == 2
MaxCollectJobs == 3
MaxLead == 8
MaxTrail == 11

(***************************************************************************)
(* Characters and strings.                                                 *)
(***************************************************************************)
Rep(ch, n) == [i \in 1..n |-> ch]

\* str.strip() with no argument removes these from both ends.
Whitespace == {" ", "\t", "\n", "\r", "\f"}

\* Code points of the characters the model uses, for str comparison.
Ord(ch) ==
    CASE ch = "\t" -> 9
      [] ch = "\n" -> 10
      [] ch = "\f" -> 12
      [] ch = "\r" -> 13
      [] ch = " " -> 32
      [] ch = "/" -> 47
      [] ch = "1" -> 49
      [] ch = "2" -> 50
      [] ch = ":" -> 58
      [] ch = "=" -> 61
      [] ch = "A" -> 65
      [] ch = "D" -> 68
      [] ch = "E" -> 69
      [] ch = "F" -> 70
      [] ch = "I" -> 73
      [] ch = "K" -> 75
      [] ch = "L" -> 76
      [] ch = "O" -> 79
      [] ch = "P" -> 80
      [] ch = "R" -> 82
      [] ch = "S" -> 83
      [] ch = "U" -> 85
      [] ch = "_" -> 95
      [] ch = "a" -> 97
      [] ch = "b" -> 98
      [] ch = "c" -> 99
      [] ch = "d" -> 100
      [] ch = "e" -> 101
      [] ch = "i" -> 105
      [] ch = "n" -> 110
      [] ch = "o" -> 111
      [] ch = "s" -> 115
      [] ch = "t" -> 116
      [] ch = "x" -> 120
      [] ch = "y" -> 121
      [] OTHER -> 127

\* s < t in Python's str ordering (lexicographic by code point).
StrLess(s, t) ==
    \E k \in 0..Len(s) :
        /\ k <= Len(t)
        /\ \A i \in 1..k : s[i] = t[i]
        /\ \/ k = Len(s) /\ k < Len(t)
           \/ k < Len(s) /\ k < Len(t) /\ Ord(s[k + 1]) < Ord(t[k + 1])

\* str.strip()
Strip(s) ==
    LET keep == {i \in 1..Len(s) : s[i] \notin Whitespace}
    IN  IF keep = {} THEN <<>>
        ELSE LET lo == CHOOSE i \in keep : \A j \in keep : i <= j
                 hi == CHOOSE i \in keep : \A j \in keep : j <= i
             IN  SubSeq(s, lo, hi)

\* str.startswith(prefix)
StartsWith(s, prefix) ==
    /\ Len(prefix) <= Len(s)
    /\ SubSeq(s, 1, Len(prefix)) = prefix

\* "m in line" for strings
Contains(s, m) ==
    \E i \in 1..(Len(s) - Len(m) + 1) : SubSeq(s, i, i + Len(m) - 1) = m

\* line.split(' ', 1)[0]: the text before the first space character.
SplitFirstSpace(s) ==
    LET sp == {i \in 1..Len(s) : s[i] = " "}
    IN  IF sp = {} THEN s
        ELSE SubSeq(s, 1, (CHOOSE i \in sp : \A j \in sp : i <= j) - 1)

\* '\n'.join(lines)
RECURSIVE JoinLines(_)
JoinLines(ls) ==
    IF ls = <<>> THEN <<>>
    ELSE IF Len(ls) = 1 THEN ls[1]
    ELSE ls[1] \o <<"\n">> \o JoinLines(Tail(ls))

\* All characters of s at positions i..j are ch.
IsRun(s, i, j, ch) == \A k \in i..j : s[k] = ch

\* list.index(x): the option of the first position of x (0-based absent).
IndexOf(ls, x) ==
    LET at == {i \in 1..Len(ls) : ls[i] = x}
    IN  IF at = {} THEN <<>>
        ELSE <<CHOOSE i \in at : \A j \in at : i <= j>>

SeqMin(s) == CHOOSE m \in {s[i] : i \in 1..Len(s)} :
                 \A i \in 1..Len(s) : m <= s[i]

(***************************************************************************)
(* Ordered mappings (Python dict): a sequence of [key, val] records with    *)
(* pairwise distinct keys, in insertion order.                             *)
(***************************************************************************)
DictHas(d, k) == \E i \in 1..Len(d) : d[i].key = k

DictGet(d, k) == d[CHOOSE i \in 1..Len(d) : d[i].key = k].val

\* d[k] = v: a present key keeps its position, a new key goes last.
DictSet(d, k, v) ==
    IF DictHas(d, k)
    THEN [i \in 1..Len(d) |-> IF d[i].key = k THEN [key |-> k, val |-> v]
                                               ELSE d[i]]
    ELSE Append(d, [key |-> k, val |-> v])

(***************************************************************************)
(* parse_log: the markers.                                                 *)
(***************************************************************************)
error_marker ==
    Rep("=", 36) \o <<" ", "E", "R", "R", "O", "R", "S", " ">> \o Rep("=", 36)

failure_marker ==
    Rep("=", 35) \o <<" ", "F", "A", "I", "L", "U", "R", "E", "S", " ">>
        \o Rep("=", 35)

\* s has the text pat at position i.
HasAt(s, pat, i) ==
    /\ i >= 1
    /\ i + Len(pat) - 1 <= Len(s)
    /\ SubSeq(s, i, i + Len(pat) - 1) = pat

\* TestMarkerSpans that wants eleven underscores after the group.
TestMarkerSpans_elevenTrailing(line) ==
    LET n == Len(line)
    IN  UNION { UNION { { <<a, b, c>> :
                            c \in { c \in (b + 1)..(n - 12) :
                                      /\ line[c + 1] = " "
                                      /\ IsRun(line, c + 2, c + 12, "_") } } :
                        b \in { b \in (a + 7)..(n - 13) :
                                  /\ line[b + 1] = " "
                                  /\ IsRun(line, a + 8, b, "_") } } :
                a \in { a \in 0..(n - 20) : IsRun(line, a + 1, a + 7, "_") } }

\* The ways '^.*_______+ (.*) __________+.*$' matches line: <<a, b, c>> with
\* line[1..a] the leading '.*', line[a+1..b] the first underscore run,
\* line[b+2..c] the group, and ten underscores from c+2 on (the rest of the
\* run and the trailing '.*' take whatever follows).
TestMarkerSpans(line) ==
    LET n == Len(line)
    IN  UNION { UNION { { <<a, b, c>> :
                            c \in { c \in (b + 1)..(n - 11) :
                                      /\ line[c + 1] = " "
                                      /\ IsRun(line, c + 2, c + 11, "_") } } :
                        b \in { b \in (a + 7)..(n - 12) :
                                  /\ line[b + 1] = " "
                                  /\ IsRun(line, a + 8, b, "_") } } :
                a \in { a \in 0..(n - 19) : IsRun(line, a + 1, a + 7, "_") } }

TestMarkerMatches(line) == TestMarkerSpans(line) # {}

SpanLess(x, y) ==
    \/ x[1] < y[1]
    \/ x[1] = y[1] /\ x[2] < y[2]
    \/ x[1] = y[1] /\ x[2] = y[2] /\ x[3] < y[3]

\* m.groups()[0]: every quantifier is greedy, so the match found is the
\* one with the longest leading '.*', then the longest underscore run, then
\* the longest group.
TestMarkerGroup(line) ==
    LET spans == TestMarkerSpans(line)
        best  == CHOOSE x \in spans : \A y \in spans : y = x \/ SpanLess(y, x)
    IN  SubSeq(line, best[2] + 2, best[3])

\* '^.*=====+ .* in .* seconds ====+.*$' matches line.
EndMarkerMatches(line) ==
    LET n == Len(line)
    IN  \E p \in 1..n :
          /\ HasAt(line, <<"=", "=", "=", "=", "=", " ">>, p)
          /\ \E q \in (p + 6)..n :
               /\ HasAt(line, <<" ", "i", "n", " ">>, q)
               /\ \E r \in (q + 4)..n :
                    HasAt(line, <<" ", "s", "e", "c", "o", "n", "d", "s", " ",
                                  "=", "=", "=", "=">>, r)

(***************************************************************************)
(* parse_log: the scan.  None is <<>>, a current test is <<name>>.          *)
(***************************************************************************)
None == <<>>

\* lines 97-102: the positions of the banners that occur, ERRORS first.
StartingPoints(lines) == IndexOf(lines, error_marker) \o IndexOf(lines, failure_marker)

\* SliceAfterStart that starts after the first banner looked for, not after
\* the earliest one.
SliceAfterStart_firstFound(lines) ==
    SubSeq(lines, StartingPoints(lines)[1] + 1, Len(lines))

\* line 108: lines[min(starting_points) + 1:]
SliceAfterStart(lines) ==
    SubSeq(lines, SeqMin(StartingPoints(lines)) + 1, Len(lines))

\* 'if current_test:' is true of a non-empty name only.
Truthy(current_test) == current_test # None /\ current_test[1] # <<>>

\* ScanBreaks that wants five '=' after 'seconds'.
ScanBreaks_fiveTrailing(line) ==
    /\ ~TestMarkerMatches(line)
    /\ line \notin {failure_marker, error_marker}
    /\ EndMarkerMatches(line)
    /\ Contains(line, <<" ", "s", "e", "c", "o", "n", "d", "s", " ">>
                          \o Rep("=", 5))

\* line 123-125: the loop body ends the scan at this line.
ScanBreaks(line) ==
    /\ ~TestMarkerMatches(line)
    /\ line \notin {failure_marker, error_marker}
    /\ EndMarkerMatches(line)

\* ScanStep with the entry of a test made at its first captured line, not
\* at its marker.
ScanStep_lazyEntry(st, line) ==
    IF TestMarkerMatches(line)
    THEN [st EXCEPT !.current_test = <<TestMarkerGroup(line)>>]
    ELSE IF line \in {failure_marker, error_marker}
    THEN [st EXCEPT !.current_test = None]
    ELSE IF Truthy(st.current_test)
    THEN [st EXCEPT !.failed_lines =
             DictSet(@, st.current_test[1],
                     Append(IF DictHas(@, st.current_test[1])
                            THEN DictGet(@, st.current_test[1]) ELSE <<>>,
                            line))]
    ELSE st

\* ScanStep whose marker keeps the buffer the name already has.
ScanStep_noReset(st, line) ==
    IF TestMarkerMatches(line)
    THEN [failed_lines |->
              IF DictHas(st.failed_lines, TestMarkerGroup(line))
              THEN st.failed_lines
              ELSE DictSet(st.failed_lines, TestMarkerGroup(line), <<>>),
          current_test |-> <<TestMarkerGroup(line)>>]
    ELSE IF line \in {failure_marker, error_marker}
    THEN [st EXCEPT !.current_test = None]
    ELSE IF Truthy(st.current_test)
    THEN [st EXCEPT !.failed_lines =
             DictSet(@, st.current_test[1],
                     Append(DictGet(@, st.current_test[1]), line))]
    ELSE st

\* One iteration of the loop of lines 113-128 that does not break.
ScanStep(st, line) ==
    IF TestMarkerMatches(line)
    THEN [failed_lines |-> DictSet(st.failed_lines, TestMarkerGroup(line), <<>>),
          current_test |-> <<TestMarkerGroup(line)>>]
    ELSE IF line \in {failure_marker, error_marker}
    THEN [st EXCEPT !.current_test = None]
    ELSE IF Truthy(st.current_test)
    THEN [st EXCEPT !.failed_lines =
             DictSet(@, st.current_test[1],
                     Append(DictGet(@, st.current_test[1]), line))]
    ELSE st

RECURSIVE ScanFrom(_, _, _)
ScanFrom(st, lines, i) ==
    IF i > Len(lines) \/ ScanBreaks(lines[i]) THEN st.failed_lines
    ELSE ScanFrom(ScanStep(st, lines[i]), lines, i + 1)

ScanInit == [failed_lines |-> <<>>, current_test |-> None]

\* parse_log that scans the whole log when it finds no banner.
parse_log_scanAll(id_, lines) ==
    IF StartingPoints(lines) = <<>>
    THEN [ret |-> ScanFrom(ScanInit, lines, 1),
          printed |-> <<[error |-> "failed to parse job", id |-> id_]>>]
    ELSE [ret |-> ScanFrom(ScanInit, SliceAfterStart(lines), 1), printed |-> <<>>]

\* parse_log(id_, lines): the mapping returned and what it printed.
parse_log(id_, lines) ==
    IF StartingPoints(lines) = <<>>
    THEN [ret |-> <<>>, printed |-> <<[error |-> "failed to parse job", id |-> id_]>>]
    ELSE [ret |-> ScanFrom(ScanInit, SliceAfterStart(lines), 1), printed |-> <<>>]

(***************************************************************************)
(* Sample lines.                                                           *)
(***************************************************************************)
TestMarkerLine(lead, name, trail) ==
    Rep("_", lead) \o <<" ">> \o name \o <<" ">> \o Rep("_", trail)

LineMarkA == TestMarkerLine(7, <<"a">>, 10)
LineMarkB == TestMarkerLine(8, <<"b">>, 11) \o <<" ", "x">>
LineMarkEmpty == TestMarkerLine(7, <<>>, 10)
LineX == <<"x">>
LineEnd ==
    Rep("=", 5) \o <<" ", "1", " ", "i", "n", " ", "2", " ",
                     "s", "e", "c", "o", "n", "d", "s", " ">> \o Rep("=", 4)

ParseLines ==
    {error_marker, failure_marker, LineMarkA, LineMarkB, LineMarkEmpty,
     LineX, LineEnd}

SeqsUpTo(S, n) == UNION {[1..k -> S] : k \in 0..n}

(***************************************************************************)
(* grep_log_for_tests.                                                     *)
(***************************************************************************)
FAILED == <<"F", "A", "I", "L", "E", "D">>
ERROR == <<"E", "R", "R", "O", "R">>
SKIPPED == <<"S", "K", "I", "P", "P", "E", "D">>
PASSED == <<"P", "A", "S", "S", "E", "D">>

\* line 66-67: the default of the markers argument.
DefaultMarkers == <<FAILED, ERROR>>

FailureMarkers == <<FAILED, ERROR>>
SkipMarkers == <<SKIPPED>>

\* line 71: any(m in line for m in markers)
AnyMarkerIn(line, markers) ==
    \E k \in 1..Len(markers) : Contains(line, markers[k])

\* GrepStep without the startswith test.
GrepStep_anyPrefix(acc, line, test_path, markers, verbose) ==
    IF AnyMarkerIn(line, markers)
    THEN [failed_tests |-> Append(acc.failed_tests, SplitFirstSpace(line)),
          echoed |-> IF verbose THEN Append(acc.echoed, line) ELSE acc.echoed]
    ELSE acc

\* lines 71-76: one iteration of the loop; acc is failed_tests and the echo.
GrepStep(acc, line, test_path, markers, verbose) ==
    IF AnyMarkerIn(line, markers)
    THEN [failed_tests |->
              IF StartsWith(line, test_path)
              THEN Append(acc.failed_tests, SplitFirstSpace(line))
              ELSE acc.failed_tests,
          echoed |-> IF verbose THEN Append(acc.echoed, line) ELSE acc.echoed]
    ELSE acc

GrepInit == [failed_tests |-> <<>>, echoed |-> <<>>]

RECURSIVE GrepFrom(_, _, _, _, _, _)
GrepFrom(acc, lines, i, test_path, markers, verbose) ==
    IF i > Len(lines) THEN acc
    ELSE GrepFrom(GrepStep(acc, lines[i], test_path, markers, verbose),
                  lines, i + 1, test_path, markers, verbose)

\* grep_log_for_tests(log_lines, test_path, markers=..., verbose=...)
grep_log_for_tests(log_lines, test_path, markers, verbose) ==
    GrepFrom(GrepInit, log_lines, 1, test_path,
             IF markers = None THEN DefaultMarkers ELSE markers, verbose)

PrefixT == <<"t", "/">>
PrefixU == <<"u", "/">>

LineTaFailed == PrefixT \o <<"a", " ">> \o FAILED
LineTbError == PrefixT \o <<"b", " ">> \o ERROR
LineTaSkipped == PrefixT \o <<"a", " ">> \o SKIPPED
LineTbSkipped == PrefixT \o <<"b", " ">> \o SKIPPED
LineTaPassed == PrefixT \o <<"a", " ">> \o PASSED
LineUaFailed == PrefixU \o <<"a", " ">> \o FAILED
LineTcTabFailed == PrefixT \o <<"c", "\t">> \o FAILED

GrepLines ==
    {LineTaFailed, LineTbError, LineTaSkipped, LineTaPassed, LineUaFailed,
     LineTcTabFailed, error_marker}

GrepPrefixes == {PrefixT, PrefixU}

GrepMarkerArgs == {None, FailureMarkers, SkipMarkers}

(***************************************************************************)
(* Text files and the provider's reply.                                    *)
(***************************************************************************)
\* The pieces of text cut at the terminators: starts is the set of positions
\* where a terminator begins and term_end[i] the position where the one
\* beginning at i ends.  A last piece without terminator is a line when it
\* is not empty.  The terminators are left out of the lines: strip()
\* removes them in every caller.
CutLines(text, starts, term_end) ==
    LET m == Cardinality(starts)
        Nth(k) == CHOOSE i \in starts :
                      Cardinality({j \in starts : j < i}) = k - 1
        From(k) == IF k = 1 THEN 1 ELSE term_end[Nth(k - 1)] + 1
        whole == [k \in 1..m |-> SubSeq(text, From(k), Nth(k) - 1)]
    IN  IF From(m + 1) <= Len(text)
        THEN Append(whole, SubSeq(text, From(m + 1), Len(text)))
        ELSE whole

\* io.StringIO(log).readlines(): no newline translation, a line ends at
\* every "\n".
SplitNewline(text) ==
    LET starts == {i \in 1..Len(text) : text[i] = "\n"}
    IN  CutLines(text, starts, [i \in starts |-> i])

\* open(fn, 'rt').readlines(): universal newlines, so "\r\n", "\r" and "\n"
\* each end a line.
SplitUniversal(text) ==
    LET n == Len(text)
        starts == {i \in 1..n :
                      \/ text[i] = "\r"
                      \/ text[i] = "\n" /\ (i = 1 \/ text[i - 1] # "\r")}
    IN  CutLines(text, starts,
                 [i \in starts |->
                     IF text[i] = "\r" /\ i < n /\ text[i + 1] = "\n"
                     THEN i + 1 ELSE i])

StripAll(ls) == [i \in 1..Len(ls) |-> Strip(ls[i])]

\* lines 52-56 of get_log: unwrap a dict reply, split and strip.
get_log(reply) ==
    LET log == IF reply.kind = "dict" THEN reply.log.body ELSE reply.body
    IN  StripAll(SplitNewline(log))

\* lines 206-207: the lines read back from a cache file.
ReadCacheFile(text) == StripAll(SplitUniversal(text))

\* lines 211-213: print(line, file=f) for every line.
RECURSIVE WriteCacheFile(_)
WriteCacheFile(log_lines) ==
    IF log_lines = <<>> THEN <<>>
    ELSE log_lines[1] \o <<"\n">> \o WriteCacheFile(Tail(log_lines))

(***************************************************************************)
(* Counter and the reports of main.                                        *)
(***************************************************************************)
\* CounterInc that stores 1 instead of adding 1.
CounterInc_once(counter, test) == DictSet(counter, test, 1)

\* counter[test] += 1
CounterInc(counter, test) ==
    DictSet(counter, test,
            IF DictHas(counter, test) THEN DictGet(counter, test) + 1 ELSE 1)

\* lines 217-220, 223-226: for test in tests: counter[test] += 1
RECURSIVE CountTests(_, _)
CountTests(counter, tests) ==
    IF tests = <<>> THEN counter
    ELSE CountTests(CounterInc(counter, Head(tests)), Tail(tests))

\* sorted(): a stable sort; less holds the pairs <<i, j>> of positions
\* whose elements compare seq[i] < seq[j].
StableSort(seq, less) ==
    LET n == Len(seq)
        Rank(i) == 1 + Cardinality({j \in 1..n :
                           \/ <<j, i>> \in less
                           \/ <<i, j>> \notin less /\ j < i})
    IN  [p \in 1..n |-> seq[CHOOSE i \in 1..n : Rank(i) = p]]

\* (test, count) tuples compare by test, then by count.
ItemLess(x, y) ==
    \/ StrLess(x.key, y.key)
    \/ x.key = y.key /\ x.val < y.val

\* sorted(items)
SortItems(items) ==
    StableSort(items, {ij \in (1..Len(items)) \X (1..Len(items)) :
                          ItemLess(items[ij[1]], items[ij[2]])})

\* sorted(items, key=lambda x: x[1], reverse=True): a reversed sort stays
\* stable, so this is the stable sort by descending count.
SortByCountDesc(items) ==
    StableSort(items, {ij \in (1..Len(items)) \X (1..Len(items)) :
                          items[ij[1]].val > items[ij[2]].val})

\* FailureReport without the inner sorted().
FailureReport_countOnly(failed_tests) == SortByCountDesc(failed_tests)

\* lines 245-248: the (test, count) rows of the failure report.
FailureReport(failed_tests) ==
    SortByCountDesc(SortItems(failed_tests))

\* lines 237-238: the rows of the skip report, skipped_tests.items().
SkipReport(skipped_tests) == skipped_tests

(***************************************************************************)
(* compare_failures_with_tool: the collection loop of lines 152-164.       *)
(***************************************************************************)
DictValues(d) == {d[i].val : i \in 1..Len(d)}

\* max_diff is None or <<n>>.
CapReached(logs, max_diff) ==
    max_diff # None /\ Len(logs) >= max_diff[1]

\* CollectStep without the test of line 160: every job's text is retained.
CollectStep_noDedup(logs, job, key, max_diff) ==
    LET failed_logs == job.failed_logs[1]
    IN  IF ~DictHas(failed_logs, key)
        THEN [logs |-> logs, stop |-> FALSE]
        ELSE LET added == DictSet(logs, job.id,
                                  JoinLines(DictGet(failed_logs, key)))
             IN  [logs |-> added, stop |-> CapReached(added, max_diff)]

\* lines 154-164: the body of the inner loop for one job; stop is the break.
CollectStep(logs, job, key, max_diff) ==
    LET failed_logs == job.failed_logs[1]
    IN  IF ~DictHas(failed_logs, key)
        THEN [logs |-> logs, stop |-> FALSE]
        ELSE LET log == JoinLines(DictGet(failed_logs, key))
             IN  IF log \in DictValues(logs)
                 THEN [logs |-> logs, stop |-> FALSE]
                 ELSE LET added == DictSet(logs, job.id, log)
                      IN  [logs |-> added,
                           stop |-> CapReached(added, max_diff)]

\* lines 153-164: the inner loop from job i on.
RECURSIVE CollectLogs(_, _, _, _, _)
CollectLogs(logs, jobs, i, key, max_diff) ==
    IF i > Len(jobs) THEN logs
    ELSE LET r == CollectStep(logs, jobs[i], key, max_diff)
         IN  IF r.stop THEN r.logs
             ELSE CollectLogs(r.logs, jobs, i + 1, key, max_diff)

\* lines 167-173: one temporary file per entry of logs, holding its text.
TempFiles(logs, key) ==
    [i \in 1..Len(logs) |-> [id |-> logs[i].key, key |-> key,
                             content |-> logs[i].val]]

(***************************************************************************)
(* State.                                                                  *)
(***************************************************************************)
VARIABLES
    pl_pc,            \* parse_log: "idle", "start", "scan", "done"
    pl_input,         \* parse_log: the lines argument
    pl_lines,         \* parse_log: lines after the slice of line 108
    pl_i,             \* parse_log: position of the for loop in pl_lines
    pl_st,            \* parse_log: failed_lines and current_test
    pl_printed,       \* parse_log: what it printed
    pl_ret,           \* parse_log: the option of the returned mapping
    gr_pc,            \* grep_log_for_tests: "idle", "loop", "done"
    gr_args,          \* grep_log_for_tests: the arguments
    gr_i,             \* grep_log_for_tests: position of the for loop
    gr_acc,           \* grep_log_for_tests: failed_tests and the echoed lines
    gr_ret,           \* grep_log_for_tests: the option of the returned list
    m_pc,             \* main: "idle", "loop", "parse", "keys", "collected",
                      \*       "done", "aborted"
    cfg,              \* main: the keyword arguments
    provider,         \* the CI provider: job id -> name of its log
    cache,            \* save_path: job id -> the option of the file's text
    jobs,             \* main: the jobs, in the order of jobs.items()
    m_j,              \* main: position of the per-job loop
    failed_tests,     \* main: Counter of failures
    skipped_tests,    \* main: Counter of skips
    fetched,          \* the job ids whose log this run fetched
    m_out,            \* what this run printed
    m_error,          \* the exception that ended this run, if any
    all_keys,         \* compare_failures_with_tool: all_keys
    keys_done,        \* compare_failures_with_tool: keys the for loop is past
    cur_key,          \* compare_failures_with_tool: the option of key
    logs,             \* compare_failures_with_tool: logs of the current key
    log_fs,           \* compare_failures_with_tool: the open temporary files
    invocations,      \* the diff tool calls of this run
    cached_at_start,  \* the job ids with a cache file when this run began
    prev,             \* the option of the outcome of the run before this one
    c_pc,             \* the loop of lines 153-164: "idle", "loop", "done"
    c_i               \* the loop of lines 153-164: position in jobs.items()

parseVars == <<pl_pc, pl_input, pl_lines, pl_i, pl_st, pl_printed, pl_ret>>

grepVars == <<gr_pc, gr_args, gr_i, gr_acc, gr_ret>>

loopVars == <<m_j, failed_tests, skipped_tests, fetched>>

diffVars == <<all_keys, keys_done, cur_key, logs, log_fs, invocations>>

mainVars == <<m_pc, cfg, provider, cache, jobs, loopVars, m_out, m_error,
              diffVars, cached_at_start, prev>>

collectVars == <<c_pc, c_i>>

ParseJobId == 7

ParseIdle ==
    /\ pl_pc = "idle"
    /\ pl_input = <<>>
    /\ pl_lines = <<>>
    /\ pl_i = 1
    /\ pl_st = ScanInit
    /\ pl_printed = <<>>
    /\ pl_ret = None

NoOutput == [skip_report |-> None, failure_report |-> None, notices |-> <<>>]

NoError == [kind |-> "none", job |-> 0]

MainIdle ==
    /\ m_pc = "idle"
    /\ cfg = [skipped |-> FALSE, count_failed |-> FALSE, run_diff |-> FALSE,
              max_diff |-> None, test_prefix |-> <<>>]
    /\ provider = <<>>
    /\ cache = <<>>
    /\ jobs = <<>>
    /\ m_j = 1
    /\ failed_tests = <<>>
    /\ skipped_tests = <<>>
    /\ fetched = {}
    /\ m_out = NoOutput
    /\ m_error = NoError
    /\ all_keys = {}
    /\ keys_done = {}
    /\ cur_key = None
    /\ logs = <<>>
    /\ log_fs = <<>>
    /\ invocations = <<>>
    /\ cached_at_start = {}
    /\ prev = None

CollectIdle ==
    /\ c_pc = "idle"
    /\ c_i = 1

GrepIdle ==
    /\ gr_pc = "idle"
    /\ gr_args = [log_lines |-> <<>>, test_path |-> <<>>, markers |-> None,
                  verbose |-> FALSE]
    /\ gr_i = 1
    /\ gr_acc = GrepInit
    /\ gr_ret = None

ParseInit ==
    /\ GrepIdle
    /\ MainIdle
    /\ CollectIdle
    /\ pl_pc = "start"
    /\ pl_input \in SeqsUpTo(ParseLines, MaxLogLen)
    /\ pl_lines = <<>>
    /\ pl_i = 1
    /\ pl_st = ScanInit
    /\ pl_printed = <<>>
    /\ pl_ret = None

\* lines 104-106: no banner, print the notice and return {}.
ParseNoBanner ==
    /\ pl_pc = "start"
    /\ StartingPoints(pl_input) = <<>>
    /\ pl_printed' = Append(pl_printed,
                            [error |-> "failed to parse job", id |-> ParseJobId])
    /\ pl_ret' = <<(<<>>)>>
    /\ pl_pc' = "done"
    /\ UNCHANGED <<grepVars, collectVars, mainVars, pl_input, pl_lines, pl_i, pl_st>>

\* lines 108-111: slice after the earliest banner, start the scan.
ParseSlice ==
    /\ pl_pc = "start"
    /\ StartingPoints(pl_input) # <<>>
    /\ pl_lines' = SliceAfterStart(pl_input)
    /\ pl_i' = 1
    /\ pl_st' = ScanInit
    /\ pl_pc' = "scan"
    /\ UNCHANGED <<grepVars, collectVars, mainVars, pl_input, pl_printed, pl_ret>>

\* lines 113-128: one iteration that goes on to the next line.
ParseScanLine ==
    /\ pl_pc = "scan"
    /\ pl_i <= Len(pl_lines)
    /\ ~ScanBreaks(pl_lines[pl_i])
    /\ pl_st' = ScanStep(pl_st, pl_lines[pl_i])
    /\ pl_i' = pl_i + 1
    /\ UNCHANGED <<grepVars, collectVars, mainVars, pl_pc, pl_input, pl_lines, pl_printed, pl_ret>>

\* lines 123-125 and 132: the summary line ends the scan.
ParseBreak ==
    /\ pl_pc = "scan"
    /\ pl_i <= Len(pl_lines)
    /\ ScanBreaks(pl_lines[pl_i])
    /\ pl_ret' = <<pl_st.failed_lines>>
    /\ pl_pc' = "done"
    /\ UNCHANGED <<grepVars, collectVars, mainVars, pl_input, pl_lines, pl_i, pl_st, pl_printed>>

\* line 132: the loop ran out of lines.
ParseReturn ==
    /\ pl_pc = "scan"
    /\ pl_i > Len(pl_lines)
    /\ pl_ret' = <<pl_st.failed_lines>>
    /\ pl_pc' = "done"
    /\ UNCHANGED <<grepVars, collectVars, mainVars, pl_input, pl_lines, pl_i, pl_st, pl_printed>>

ParseNext ==
    \/ ParseNoBanner
    \/ ParseSlice
    \/ ParseScanLine
    \/ ParseBreak
    \/ ParseReturn

(***************************************************************************)
(* grep_log_for_tests, line by line.                                       *)
(***************************************************************************)
GrepSpecInit ==
    /\ ParseIdle
    /\ MainIdle
    /\ CollectIdle
    /\ gr_pc = "loop"
    /\ gr_args \in [log_lines : SeqsUpTo(GrepLines, MaxGrepLen),
                     test_path : GrepPrefixes,
                     markers : GrepMarkerArgs,
                     verbose : BOOLEAN]
    /\ gr_i = 1
    /\ gr_acc = GrepInit
    /\ gr_ret = None

GrepMarkers == IF gr_args.markers = None THEN DefaultMarkers ELSE gr_args.markers

\* lines 70-76: one iteration.
GrepLine ==
    /\ gr_pc = "loop"
    /\ gr_i <= Len(gr_args.log_lines)
    /\ gr_acc' = GrepStep(gr_acc, gr_args.log_lines[gr_i], gr_args.test_path,
                          GrepMarkers, gr_args.verbose)
    /\ gr_i' = gr_i + 1
    /\ UNCHANGED <<parseVars, collectVars, mainVars, gr_pc, gr_args, gr_ret>>

\* line 77
GrepReturn ==
    /\ gr_pc = "loop"
    /\ gr_i > Len(gr_args.log_lines)
    /\ gr_ret' = <<gr_acc.failed_tests>>
    /\ gr_pc' = "done"
    /\ UNCHANGED <<parseVars, collectVars, mainVars, gr_args, gr_i, gr_acc>>

GrepNext ==
    \/ GrepLine
    \/ GrepReturn

vars == <<parseVars, grepVars, mainVars, collectVars>>

SpecGrep == GrepSpecInit /\ [][GrepNext]_vars

(***************************************************************************)
(* main: sample builds.                                                    *)
(***************************************************************************)
LineXcrY == <<"x", "\r", "y">>

LogLinesAB1 ==
    <<LineTbError, LineTaFailed, LineTbSkipped, failure_marker, LineMarkA,
      LineX, LineMarkB, LineEnd>>

LogLinesAB2 ==
    <<LineTaFailed, LineTaSkipped, error_marker, LineMarkA, LineMarkB,
      LineXcrY, LineEnd>>

LogLinesNoBanner == <<LineTbError, LineTaSkipped, LineMarkA, LineX>>

\* The log text the provider holds under a name.
ProviderBody(name) ==
    WriteCacheFile(CASE name = "AB1" -> LogLinesAB1
                     [] name = "AB2" -> LogLinesAB2
                     [] OTHER -> LogLinesNoBanner)

\* The reply of travis_request(url): a bare string or a dict around it.
ProviderReply(name, kind) ==
    IF kind = "dict" THEN [kind |-> "dict", log |-> [body |-> ProviderBody(name)]]
                     ELSE [kind |-> "str", body |-> ProviderBody(name)]

ReplyKinds == {"str", "dict"}

JobIds == 1..NumJobs

JobSamples ==
    {[state |-> "passed", log |-> "AB1"],
     [state |-> "failed", log |-> "AB1"],
     [state |-> "failed", log |-> "AB2"],
     [state |-> "errored", log |-> "NoBanner"]}

\* Cache files left by an earlier invocation.
CacheSamples ==
    {None, <<WriteCacheFile(get_log(ProviderReply("AB2", "str")))>>}

Configs ==
    {[skipped |-> FALSE, count_failed |-> TRUE, run_diff |-> FALSE,
      max_diff |-> None, test_prefix |-> PrefixT],
     [skipped |-> TRUE, count_failed |-> FALSE, run_diff |-> FALSE,
      max_diff |-> None, test_prefix |-> PrefixT],
     [skipped |-> FALSE, count_failed |-> TRUE, run_diff |-> TRUE,
      max_diff |-> None, test_prefix |-> PrefixT]}
    \cup {[skipped |-> TRUE, count_failed |-> TRUE, run_diff |-> TRUE,
           max_diff |-> <<n>>, test_prefix |-> PrefixT] : n \in 0..MaxDiffCap}

(***************************************************************************)
(* main.                                                                   *)
(***************************************************************************)
\* line 188: the jobs as get_jobs returns them, no 'log' attached yet.
FreshJobs(states) ==
    [i \in 1..Len(states) |-> [id |-> i, state |-> states[i], log |-> None,
                               failed_logs |-> None]]

\* FailingStates that lets passed jobs through.
FailingStates_withPassed == {"failed", "errored", "passed"}

\* line 196
FailingStates == {"failed", "errored"}

\* CacheExists that never finds the file.
CacheExists_never(files, id) == FALSE

\* line 205: os.path.exists(local_fn)
CacheExists(files, id) == files[id] # None

\* lines 217-220: the failure tally after one job's log.
TallyFailed(counter, log_lines, c) ==
    CountTests(counter,
               grep_log_for_tests(log_lines, c.test_prefix, FailureMarkers,
                                  FALSE).failed_tests)

\* lines 222-226: the skip tally after one job's log.
TallySkipped(counter, log_lines, c) ==
    IF c.skipped
    THEN CountTests(counter,
                    grep_log_for_tests(log_lines, c.test_prefix, SkipMarkers,
                                       FALSE).failed_tests)
    ELSE counter

MainInit ==
    /\ ParseIdle
    /\ GrepIdle
    /\ CollectIdle
    /\ m_pc = "loop"
    /\ cfg \in Configs
    /\ \E build \in [JobIds -> JobSamples] :
         /\ provider = [i \in JobIds |-> build[i].log]
         /\ jobs = FreshJobs([i \in JobIds |-> build[i].state])
    /\ cache \in [JobIds -> CacheSamples]
    /\ m_j = 1
    /\ failed_tests = <<>>
    /\ skipped_tests = <<>>
    /\ fetched = {}
    /\ m_out = NoOutput
    /\ m_error = NoError
    /\ all_keys = {}
    /\ keys_done = {}
    /\ cur_key = None
    /\ logs = <<>>
    /\ log_fs = <<>>
    /\ invocations = <<>>
    /\ cached_at_start = {i \in JobIds : cache[i] # None}
    /\ prev = None

InLoop == m_pc = "loop" /\ m_j <= Len(jobs)

\* lines 196-197: a job that is neither failed nor errored.
JobSkip ==
    /\ InLoop
    /\ jobs[m_j].state \notin FailingStates
    /\ m_j' = m_j + 1
    /\ UNCHANGED <<parseVars, grepVars, collectVars, m_pc, cfg, provider, cache, jobs,
                   failed_tests, skipped_tests, fetched, m_out, m_error,
                   diffVars, cached_at_start, prev>>

\* lines 215-226: attach the log and count its tests.
AttachAndCount(log_lines) ==
    /\ jobs' = [jobs EXCEPT ![m_j].log = <<log_lines>>]
    /\ failed_tests' = TallyFailed(failed_tests, log_lines, cfg)
    /\ skipped_tests' = TallySkipped(skipped_tests, log_lines, cfg)
    /\ m_j' = m_j + 1

\* JobFromCache that also refreshes the file from the provider.
JobFromCache_refresh ==
    /\ InLoop
    /\ jobs[m_j].state \in FailingStates
    /\ CacheExists(cache, jobs[m_j].id)
    /\ AttachAndCount(ReadCacheFile(cache[jobs[m_j].id][1]))
    /\ cache' = [cache EXCEPT ![jobs[m_j].id] =
                    <<ProviderBody(provider[jobs[m_j].id])>>]
    /\ UNCHANGED <<parseVars, grepVars, collectVars, m_pc, cfg, provider,
                   fetched, m_out, m_error, diffVars, cached_at_start, prev>>

\* lines 205-207, 215-226: the log is read from its cache file.
JobFromCache ==
    /\ InLoop
    /\ jobs[m_j].state \in FailingStates
    /\ CacheExists(cache, jobs[m_j].id)
    /\ AttachAndCount(ReadCacheFile(cache[jobs[m_j].id][1]))
    /\ UNCHANGED <<parseVars, grepVars, collectVars, m_pc, cfg, provider, cache,
                   fetched, m_out, m_error, diffVars, cached_at_start, prev>>

\* lines 208-226: the log is fetched and written to its cache file.
JobFetch ==
    /\ InLoop
    /\ jobs[m_j].state \in FailingStates
    /\ ~CacheExists(cache, jobs[m_j].id)
    /\ \E kind \in ReplyKinds :
         LET log_lines == get_log(ProviderReply(provider[jobs[m_j].id], kind))
         IN  /\ cache' = [cache EXCEPT ![jobs[m_j].id] =
                             <<WriteCacheFile(log_lines)>>]
             /\ AttachAndCount(log_lines)
    /\ fetched' = fetched \cup {jobs[m_j].id}
    /\ UNCHANGED <<parseVars, grepVars, collectVars, m_pc, cfg, provider, m_out,
                   m_error, diffVars, cached_at_start, prev>>

\* lines 33, 51, 209: travis_request raises; nothing in main catches it.
JobFetchError ==
    /\ InLoop
    /\ jobs[m_j].state \in FailingStates
    /\ ~CacheExists(cache, jobs[m_j].id)
    /\ m_error' = [kind |-> "fetch", job |-> jobs[m_j].id]
    /\ m_pc' = "aborted"
    /\ UNCHANGED <<parseVars, grepVars, collectVars, cfg, provider, cache, jobs,
                   loopVars, m_out, diffVars, cached_at_start, prev>>

\* lines 233-253: the reports, then the differ when asked for.
Reports ==
    /\ m_pc = "loop"
    /\ m_j > Len(jobs)
    /\ m_out' = [m_out EXCEPT
                   !.skip_report =
                       IF cfg.skipped /\ skipped_tests # <<>>
                       THEN <<SkipReport(skipped_tests)>> ELSE None,
                   !.failure_report =
                       IF cfg.count_failed
                       THEN <<FailureReport(failed_tests)>> ELSE None]
    /\ m_pc' = IF cfg.run_diff THEN "parse" ELSE "done"
    /\ UNCHANGED <<parseVars, grepVars, collectVars, cfg, provider, cache, jobs,
                   loopVars, m_error, diffVars, cached_at_start, prev>>

(***************************************************************************)
(* compare_failures_with_tool.                                             *)
(***************************************************************************)
\* lines 142-147 for one job: its failed_logs and what parse_log printed.
ParsedJob(job) ==
    IF job.log = None THEN [ret |-> <<>>, printed |-> <<>>]
    ELSE parse_log(job.id, job.log[1])

\* What the calls of parse_log printed, in the order of the jobs.
RECURSIVE Notices(_, _)
Notices(parsed, i) ==
    IF i > Len(parsed) THEN <<>>
    ELSE parsed[i].printed \o Notices(parsed, i + 1)

\* lines 140-149: the first loop.
DiffParse ==
    /\ m_pc = "parse"
    /\ LET parsed == [i \in 1..Len(jobs) |-> ParsedJob(jobs[i])]
       IN  /\ jobs' = [i \in 1..Len(jobs) |->
                         [jobs[i] EXCEPT !.failed_logs = <<parsed[i].ret>>]]
           /\ all_keys' = UNION {{parsed[i].ret[k].key :
                                     k \in 1..Len(parsed[i].ret)} :
                                 i \in 1..Len(jobs)}
           /\ m_out' = [m_out EXCEPT !.notices = @ \o Notices(parsed, 1)]
    /\ keys_done' = {}
    /\ cur_key' = None
    /\ m_pc' = "keys"
    /\ UNCHANGED <<parseVars, grepVars, collectVars, cfg, provider, cache, loopVars,
                   m_error, logs, log_fs, invocations, cached_at_start, prev>>

\* lines 151-164: the next key of the set and its collection loop.
DiffCollect ==
    /\ m_pc = "keys"
    /\ \E key \in all_keys \ keys_done :
         /\ cur_key' = <<key>>
         /\ logs' = CollectLogs(<<>>, jobs, 1, key, cfg.max_diff)
    /\ m_pc' = "collected"
    /\ UNCHANGED <<parseVars, grepVars, collectVars, cfg, provider, cache, jobs,
                   loopVars, m_out, m_error, all_keys, keys_done, log_fs,
                   invocations, cached_at_start, prev>>

\* NeedsDiff that is content with one text.
NeedsDiff_oneText(ls) == Cardinality(DictValues(ls)) > 0

\* line 166
NeedsDiff(ls) == Cardinality(DictValues(ls)) > 1

\* line 166 false: on to the next key; log_fs keeps what it holds.
DiffNoTool ==
    /\ m_pc = "collected"
    /\ ~NeedsDiff(logs)
    /\ keys_done' = keys_done \cup {cur_key[1]}
    /\ m_pc' = "keys"
    /\ UNCHANGED <<parseVars, grepVars, collectVars, cfg, provider, cache, jobs,
                   loopVars, m_out, m_error, all_keys, cur_key, logs, log_fs,
                   invocations, cached_at_start, prev>>

\* lines 167-176: the files are made and written, log_fs is rebound to them
\* (which drops the files it held before) and the tool runs and returns; its
\* exit status is discarded.
DiffTool ==
    /\ m_pc = "collected"
    /\ NeedsDiff(logs)
    /\ log_fs' = TempFiles(logs, cur_key[1])
    /\ \E status \in {0, 1} :
         invocations' = Append(invocations,
                               [key |-> cur_key[1], files |-> log_fs'])
    /\ keys_done' = keys_done \cup {cur_key[1]}
    /\ m_pc' = "keys"
    /\ UNCHANGED <<parseVars, grepVars, collectVars, cfg, provider, cache, jobs,
                   loopVars, m_out, m_error, all_keys, cur_key, logs,
                   cached_at_start, prev>>

\* line 174: subprocess.call raises (the tool cannot be started); the
\* exception leaves main and the process ends, which drops every file.
DiffToolError ==
    /\ m_pc = "collected"
    /\ NeedsDiff(logs)
    /\ m_error' = [kind |-> "tool", job |-> 0]
    /\ log_fs' = <<>>
    /\ m_pc' = "aborted"
    /\ UNCHANGED <<parseVars, grepVars, collectVars, cfg, provider, cache, jobs,
                   loopVars, m_out, all_keys, keys_done, cur_key, logs,
                   invocations, cached_at_start, prev>>

\* The for loop of line 151 is exhausted: the function returns and its
\* locals, log_fs among them, are dropped.
DiffReturn ==
    /\ m_pc = "keys"
    /\ keys_done = all_keys
    /\ log_fs' = <<>>
    /\ m_pc' = "done"
    /\ UNCHANGED <<parseVars, grepVars, collectVars, cfg, provider, cache, jobs,
                   loopVars, m_out, m_error, all_keys, keys_done, cur_key,
                   logs, invocations, cached_at_start, prev>>

SeqToSet(q) == {q[i] : i \in 1..Len(q)}

\* What one run did, as the next run remembers it.
RunSummary ==
    [ended |-> m_pc, error |-> m_error, failed_tests |-> failed_tests,
     skipped_tests |-> skipped_tests, invocations |-> SeqToSet(invocations),
     fetched |-> fetched, cached_at_start |-> cached_at_start]

\* The program is started again on the same build, with the same arguments
\* and the cache directory as the last run left it.  Only the outcome of the
\* run that just ended is remembered.
NextRun ==
    /\ m_pc \in {"done", "aborted"}
    /\ prev' = <<RunSummary>>
    /\ m_pc' = "loop"
    /\ jobs' = FreshJobs([i \in 1..Len(jobs) |-> jobs[i].state])
    /\ m_j' = 1
    /\ failed_tests' = <<>>
    /\ skipped_tests' = <<>>
    /\ fetched' = {}
    /\ m_out' = NoOutput
    /\ m_error' = NoError
    /\ all_keys' = {}
    /\ keys_done' = {}
    /\ cur_key' = None
    /\ logs' = <<>>
    /\ log_fs' = <<>>
    /\ invocations' = <<>>
    /\ cached_at_start' = {i \in JobIds : cache[i] # None}
    /\ UNCHANGED <<parseVars, grepVars, collectVars, cfg, provider, cache>>

MainNext ==
    \/ JobSkip
    \/ JobFromCache
    \/ JobFetch
    \/ JobFetchError
    \/ Reports
    \/ DiffParse
    \/ DiffCollect
    \/ DiffNoTool
    \/ DiffTool
    \/ DiffToolError
    \/ DiffReturn
    \/ NextRun

SpecMain == MainInit /\ [][MainNext]_vars

SpecParse == ParseInit /\ [][ParseNext]_vars

(***************************************************************************)
(* parse_log on lines of the shape of a test start.                        *)
(***************************************************************************)
\* A run of underscores, a space, the name, a space, a run of underscores
\* and what follows it.
MarkerShape(lead, name, trail, rest) ==
    TestMarkerLine(lead, name, trail) \o rest

MarkerNames == {<<"a">>, <<"t", "_", "a">>, <<>>}

MarkerRests == {<<>>, <<" ", "x">>}

\* Runs from one underscore less than test_marker takes on.
ShapedLines ==
    {MarkerShape(lead, name, trail, rest) :
        lead \in 6..MaxLead, name \in MarkerNames, trail \in 8..MaxTrail,
        rest \in MarkerRests}

\* What precedes the shaped line: no banner, a banner, a banner and a test
\* with one captured line.
ShapeHeads ==
    {<<>>, <<failure_marker>>, <<failure_marker, LineMarkB, LineX>>}

ShapeTails == {<<>>, <<LineX>>, <<LineX, LineEnd>>}

ShapeInit ==
    /\ GrepIdle
    /\ MainIdle
    /\ CollectIdle
    /\ pl_pc = "start"
    /\ \E head \in ShapeHeads, line \in ShapedLines, tail \in ShapeTails :
         pl_input = head \o <<line>> \o tail
    /\ pl_lines = <<>>
    /\ pl_i = 1
    /\ pl_st = ScanInit
    /\ pl_printed = <<>>
    /\ pl_ret = None

SpecShape == ShapeInit /\ [][ParseNext]_vars

(***************************************************************************)
(* compare_failures_with_tool: the inner loop of lines 153-164, job by job. *)
(***************************************************************************)
\* Logs of the jobs the loop runs over: the test a with no line, with one
\* empty line, with one line, with two lines next to a test b, and a log
\* without the test a.
CollectLogSamples ==
    {<<failure_marker, LineMarkA>>,
     <<failure_marker, LineMarkA, <<>>>>,
     <<failure_marker, LineMarkA, LineX>>,
     <<failure_marker, LineMarkB, LineMarkA, LineX, LineX>>,
     <<failure_marker, LineMarkB>>}

\* A job as the first loop (lines 141-149) leaves it; a job that main gave
\* no log gets an empty failed_logs.
CollectJob(i, log) ==
    LET job == [id |-> i, state |-> IF log = None THEN "passed" ELSE "failed",
                log |-> log, failed_logs |-> None]
    IN  [job EXCEPT !.failed_logs = <<ParsedJob(job).ret>>]

CollectCaps == {None} \cup {<<n>> : n \in 0..MaxDiffCap}

\* The state at line 152 for one key of all_keys.
CollectInit ==
    /\ ParseIdle
    /\ GrepIdle
    /\ m_pc = "idle"
    /\ \E c \in CollectCaps :
         cfg = [skipped |-> FALSE, count_failed |-> FALSE, run_diff |-> TRUE,
                max_diff |-> c, test_prefix |-> PrefixT]
    /\ provider = <<>>
    /\ cache = <<>>
    /\ \E build \in [1..MaxCollectJobs ->
                         {None} \cup {<<l>> : l \in CollectLogSamples}] :
         jobs = [i \in 1..MaxCollectJobs |-> CollectJob(i, build[i])]
    /\ m_j = 1
    /\ failed_tests = <<>>
    /\ skipped_tests = <<>>
    /\ fetched = {}
    /\ m_out = NoOutput
    /\ m_error = NoError
    /\ all_keys = UNION {{jobs[i].failed_logs[1][k].key :
                              k \in 1..Len(jobs[i].failed_logs[1])} :
                          i \in 1..Len(jobs)}
    /\ keys_done = {}
    /\ \E key \in all_keys : cur_key = <<key>>
    /\ logs = <<>>
    /\ log_fs = <<>>
    /\ invocations = <<>>
    /\ cached_at_start = {}
    /\ prev = None
    /\ c_pc = "loop"
    /\ c_i = 1

\* lines 154-164 for the job at c_i, the loop goes on: the job has no entry
\* for the key, its text is already retained, or it is retained and the cap
\* is not reached.
CollectNextJob ==
    /\ c_pc = "loop"
    /\ c_i <= Len(jobs)
    /\ LET r == CollectStep(logs, jobs[c_i], cur_key[1], cfg.max_diff)
       IN  /\ ~r.stop
           /\ logs' = r.logs
    /\ c_i' = c_i + 1
    /\ UNCHANGED <<parseVars, grepVars, m_pc, cfg, provider, cache, jobs,
                   loopVars, m_out, m_error, all_keys, keys_done, cur_key,
                   log_fs, invocations, cached_at_start, prev, c_pc>>

\* lines 161-164: the text is retained and the break of line 164 is taken.
CollectBreak ==
    /\ c_pc = "loop"
    /\ c_i <= Len(jobs)
    /\ LET r == CollectStep(logs, jobs[c_i], cur_key[1], cfg.max_diff)
       IN  /\ r.stop
           /\ logs' = r.logs
    /\ c_pc' = "done"
    /\ UNCHANGED <<parseVars, grepVars, m_pc, cfg, provider, cache, jobs,
                   loopVars, m_out, m_error, all_keys, keys_done, cur_key,
                   log_fs, invocations, cached_at_start, prev, c_i>>

\* line 153: jobs.items() is exhausted.
CollectExhausted ==
    /\ c_pc = "loop"
    /\ c_i > Len(jobs)
    /\ c_pc' = "done"
    /\ UNCHANGED <<parseVars, grepVars, mainVars, c_i>>

CollectNext ==
    \/ CollectNextJob
    \/ CollectBreak
    \/ CollectExhausted

SpecCollect == CollectInit /\ [][CollectNext]_vars

(***************************************************************************)
(* Properties of parse_log.                                                *)
(***************************************************************************)
Banners == {error_marker, failure_marker}

HasBanner(lines) == \E i \in 1..Len(lines) : lines[i] \in Banners

\* The lines after the banner with the smallest line index.
AfterEarliestBanner(lines) ==
    LET first == CHOOSE i \in 1..Len(lines) :
                     /\ lines[i] \in Banners
                     /\ \A j \in 1..(i - 1) : lines[j] \notin Banners
    IN  SubSeq(lines, first + 1, Len(lines))

IsSummary(line) == EndMarkerMatches(line) /\ ~TestMarkerMatches(line)

\* Position of the first summary line of region (0 when there is none).
FirstSummary(region) ==
    LET at == {i \in 1..Len(region) : IsSummary(region[i])}
    IN  IF at = {} THEN 0 ELSE CHOOSE i \in at : \A j \in at : i <= j

\* The test-start marker positions of region before its first summary line.
MarksOf(region) ==
    LET e == FirstSummary(region)
    IN  {i \in 1..(e - 1) : TestMarkerMatches(region[i])}

\* The k-th smallest element of the set of positions marks.
NthOf(marks, k) ==
    CHOOSE i \in marks : Cardinality({j \in marks : j < i}) = k - 1

\* The lines of region after the marker at i, up to the next position of
\* stops (the later markers and the summary line).
LinesAfterMark(region, stops, i) ==
    LET later == {j \in stops : j > i}
    IN  SubSeq(region, i + 1, (CHOOSE j \in later : \A l \in later : j <= l) - 1)

\* One failure section: a banner, then markers and their lines, then a
\* summary line, with no further banner before the summary line.
WellFormed(lines) ==
    /\ HasBanner(lines)
    /\ LET region == AfterEarliestBanner(lines)
           e      == FirstSummary(region)
       IN  /\ e > 0
           /\ \A i \in 1..e : region[i] \notin Banners

DistinctNames(region) ==
    LET marks == MarksOf(region)
        name  == [i \in marks |-> TestMarkerGroup(region[i])]
    IN  \A i, j \in marks : i # j => name[i] # name[j]

ParsedWellFormed ==
    /\ pl_pc = "done"
    /\ WellFormed(pl_input)

\* C1 as stated: for a well-formed log with N test-start markers parse_log
\* returns exactly N entries, in marker order, each holding exactly the lines
\* strictly between its marker and the next marker or the summary line.
C1_AsStated ==
    ParsedWellFormed =>
        LET region == AfterEarliestBanner(pl_input)
            marks  == MarksOf(region)
            stops  == marks \cup {FirstSummary(region)}
            ret    == pl_ret[1]
        IN  /\ Len(ret) = Cardinality(marks)
            /\ \A k \in 1..Len(ret) :
                 /\ ret[k].key = TestMarkerGroup(region[NthOf(marks, k)])
                 /\ ret[k].val = LinesAfterMark(region, stops, NthOf(marks, k))

\* C1 amended: for a well-formed log whose N test-start markers carry
\* pairwise distinct names parse_log returns exactly N entries, in marker
\* order; each entry with a non-empty name holds exactly the lines strictly
\* between its marker and the next marker or the summary line, and an entry
\* with the empty name holds no line.
C1_Segments ==
    (ParsedWellFormed /\ DistinctNames(AfterEarliestBanner(pl_input))) =>
        LET region == AfterEarliestBanner(pl_input)
            marks  == MarksOf(region)
            stops  == marks \cup {FirstSummary(region)}
            ret    == pl_ret[1]
        IN  /\ Len(ret) = Cardinality(marks)
            /\ \A k \in 1..Len(ret) :
                 /\ ret[k].key = TestMarkerGroup(region[NthOf(marks, k)])
                 /\ ret[k].val =
                      IF ret[k].key = <<>> THEN <<>>
                      ELSE LinesAfterMark(region, stops, NthOf(marks, k))

\* Two markers with distinct non-empty names, the first with a captured line.
C1_Witness ==
    /\ ParsedWellFormed
    /\ DistinctNames(AfterEarliestBanner(pl_input))
    /\ Len(pl_ret[1]) = 2
    /\ pl_ret[1][1].key # <<>>
    /\ pl_ret[1][1].val # <<>>
    /\ pl_ret[1][2].key # <<>>

\* C3: the scan starts at the line after the banner with the smallest line
\* index; a banner met by the scan sets the current test to none and the
\* scan goes on; a marker met later still opens an entry; while no test is
\* current a line that is not a marker is captured by no test.
C3_Start ==
    (pl_pc \in {"scan", "done"} /\ HasBanner(pl_input)) =>
        pl_lines = AfterEarliestBanner(pl_input)

C3_Step ==
    (pl_pc = "scan" /\ pl_i <= Len(pl_lines)) =>
        /\ pl_lines[pl_i] \in Banners =>
             /\ pl_pc' = "scan"
             /\ pl_i' = pl_i + 1
             /\ pl_st'.current_test = None
             /\ pl_st'.failed_lines = pl_st.failed_lines
        /\ (pl_st.current_test = None /\ ~TestMarkerMatches(pl_lines[pl_i])) =>
             pl_st'.failed_lines = pl_st.failed_lines
        /\ TestMarkerMatches(pl_lines[pl_i]) =>
             /\ pl_pc' = "scan"
             /\ DictHas(pl_st'.failed_lines, TestMarkerGroup(pl_lines[pl_i]))

C3_BothBanners == [](C3_Start) /\ [][C3_Step]_vars

\* Both banners occur, the second one was met while a test was current, a
\* line after it was dropped and a marker after that line was captured.
C3_Witness ==
    /\ pl_pc = "done"
    /\ \E i, j \in 1..Len(pl_input) :
         pl_input[i] = error_marker /\ pl_input[j] = failure_marker
    /\ \E k \in 2..(Len(pl_lines) - 2) :
         /\ TestMarkerMatches(pl_lines[k - 1])
         /\ pl_lines[k] \in Banners
         /\ pl_lines[k + 1] = LineX
         /\ TestMarkerMatches(pl_lines[k + 2])
         /\ pl_ret # None
         /\ Len(pl_ret[1]) = 2

\* The last position of region the scan reaches before it ends: the line
\* before the first summary line, or the last line.
ScanLimit(region) ==
    LET e == FirstSummary(region)
    IN  IF e = 0 THEN Len(region) ELSE e - 1

\* The markers among the first limit lines of region.
MarksUpTo(region, limit) ==
    {i \in 1..limit : TestMarkerMatches(region[i])}

\* The lines after the marker at i up to the next of the positions stops.
LinesUntilStop(region, stops, i) ==
    LET later == {j \in stops : j > i}
    IN  SubSeq(region, i + 1, (CHOOSE j \in later : \A l \in later : j <= l) - 1)

\* The greatest of the positions marks whose marker carries name.
LastOccurrence(region, marks, name) ==
    LET occ == {i \in marks : TestMarkerGroup(region[i]) = name}
    IN  CHOOSE i \in occ : \A j \in occ : j <= i

\* C12: a test name is a key of the result of parse_log at most once, and
\* the value under a name is exactly what was captured after the last
\* marker of that name: the lines up to the next marker, banner or summary
\* line (none for the empty name, after which nothing is captured);
\* nothing of an earlier occurrence is kept.
C12_LastOccurrenceKept ==
    (pl_pc = "done" /\ HasBanner(pl_input)) =>
        LET region == AfterEarliestBanner(pl_input)
            limit  == ScanLimit(region)
            marks  == MarksUpTo(region, limit)
            stops  == marks \cup {j \in 1..limit : region[j] \in Banners}
                            \cup {limit + 1}
            ret    == pl_ret[1]
        IN  /\ \A i, j \in 1..Len(ret) : i # j => ret[i].key # ret[j].key
            /\ \A i \in 1..Len(ret) :
                 /\ \E q \in marks : TestMarkerGroup(region[q]) = ret[i].key
                 /\ ret[i].val =
                      IF ret[i].key = <<>> THEN <<>>
                      ELSE LinesUntilStop(region, stops,
                               LastOccurrence(region, marks, ret[i].key))

\* The name a with two markers, the line x captured after the first and
\* again after the second; the value is one line x.
C12_Witness ==
    /\ pl_pc = "done"
    /\ pl_lines = <<LineMarkA, LineX, LineMarkA, LineX>>
    /\ pl_ret = << <<[key |-> <<"a">>, val |-> <<LineX>>]>> >>

\* line is a summary line as the scan meets it: no marker, no banner, and
\* end_marker matches.
EndsScan(line) ==
    /\ line \notin Banners
    /\ ~TestMarkerMatches(line)
    /\ EndMarkerMatches(line)

\* C13: every capture buffer holds lines that follow a marker the scan has
\* passed and precede the position of the scan, and the scan has passed no
\* summary line: no line at or before the earliest banner, none between the
\* banner and the first marker and none at or after the summary line is
\* captured, and no marker after the summary line makes an entry.
C13_State ==
    (pl_pc \in {"scan", "done"} /\ HasBanner(pl_input)) =>
        LET region == AfterEarliestBanner(pl_input)
            marks  == MarksUpTo(region, pl_i - 1)
            buf    == pl_st.failed_lines
        IN  /\ pl_i - 1 <= Len(region)
            /\ \A j \in 1..(pl_i - 1) : ~EndsScan(region[j])
            /\ pl_pc = "done" => pl_ret = <<buf>>
            /\ \A k \in 1..Len(buf) :
                 \E q \in marks :
                     /\ buf[k].key = TestMarkerGroup(region[q])
                     /\ \E n \in 0..(pl_i - 1 - q) :
                          buf[k].val = SubSeq(region, q + 1, q + n)

\* The summary line ends the scan, whether or not a test is current.
C13_Step ==
    (pl_pc = "scan" /\ pl_i <= Len(pl_lines) /\ EndsScan(pl_lines[pl_i])) =>
        /\ pl_pc' = "done"
        /\ pl_ret' = <<pl_st.failed_lines>>

C13_OnlyScannedRegion == [](C13_State) /\ [][C13_Step]_vars

\* A line before the banner, a line between the banner and the summary
\* line, no test current at the summary line and a marker after it.
C13_Witness ==
    /\ pl_pc = "done"
    /\ Len(pl_input) = 5
    /\ pl_input[1] = LineX
    /\ pl_input[2] \in Banners
    /\ pl_input[3] = LineX
    /\ IsSummary(pl_input[4])
    /\ TestMarkerMatches(pl_input[5])
    /\ pl_ret = <<(<<>>)>>

\* The scan is at a line of the shape, with runs of the given lengths.
AtShape(lead, name, trail, rest) ==
    /\ pl_pc = "scan"
    /\ pl_i <= Len(pl_lines)
    /\ pl_lines[pl_i] = MarkerShape(lead, name, trail, rest)

\* The step opens an empty buffer under name, makes name the current test
\* and leaves every other buffer as it is.
OpensBuffer(name) ==
    /\ pl_pc' = "scan"
    /\ pl_i' = pl_i + 1
    /\ pl_st'.current_test = <<name>>
    /\ DictHas(pl_st'.failed_lines, name)
    /\ DictGet(pl_st'.failed_lines, name) = <<>>
    /\ \A k \in 1..Len(pl_st.failed_lines) :
         pl_st.failed_lines[k].key # name =>
             pl_st.failed_lines[k] \in SeqToSet(pl_st'.failed_lines)
    /\ Len(pl_st'.failed_lines) =
         Len(pl_st.failed_lines)
             + (IF DictHas(pl_st.failed_lines, name) THEN 0 ELSE 1)

\* C14 as stated: a line of 7 or more underscores, a space, the name, a
\* space, 9 or more underscores and optional trailing content is a test
\* start: the step opens a buffer under the name and stores the line in no
\* buffer.
C14_AsStated ==
    [][\A lead \in 7..MaxLead, name \in MarkerNames, trail \in 9..MaxTrail,
          rest \in MarkerRests :
            AtShape(lead, name, trail, rest) => OpensBuffer(name)]_vars

\* C14 amended: the same with 10 or more underscores after the name (the
\* name holding no run of 7 or more underscores and the trailing content no
\* run of 10 or more).
C14_TestStart ==
    [][\A lead \in 7..MaxLead, name \in MarkerNames, trail \in 10..MaxTrail,
          rest \in MarkerRests :
            AtShape(lead, name, trail, rest) => OpensBuffer(name)]_vars

\* A line with exactly 7 and exactly 10 underscores and trailing content was
\* met while the test b was current: t_a has an empty buffer and is current,
\* b keeps its line.
C14_Witness ==
    /\ pl_pc = "scan"
    /\ pl_i = 4
    /\ pl_lines[3] = MarkerShape(7, <<"t", "_", "a">>, 10, <<" ", "x">>)
    /\ pl_st.current_test = <<(<<"t", "_", "a">>)>>
    /\ pl_st.failed_lines =
         <<[key |-> <<"b">>, val |-> <<LineX>>],
           [key |-> <<"t", "_", "a">>, val |-> <<>>]>>

(***************************************************************************)
(* Properties of grep_log_for_tests.                                       *)
(***************************************************************************)
\* The positions of the lines that contain a marker and start with the prefix.
HitLines(lines, test_path, markers) ==
    {i \in 1..Len(lines) :
        /\ \E k \in 1..Len(markers) : Contains(lines[i], markers[k])
        /\ StartsWith(lines[i], test_path)}

\* r is the text of line up to its first space character.
IsLeadingToken(r, line) ==
    /\ StartsWith(line, r)
    /\ \A i \in 1..Len(r) : r[i] # " "
    /\ Len(r) = Len(line) \/ line[Len(r) + 1] = " "

\* C4: grep_log_for_tests returns one entry per line that contains a marker
\* and starts with the prefix, in line order, duplicates kept; every other
\* line contributes nothing.
C4_GrepHits ==
    gr_pc = "done" =>
        LET lines == gr_args.log_lines
            hits  == HitLines(lines, gr_args.test_path, GrepMarkers)
        IN  /\ Len(gr_ret[1]) = Cardinality(hits)
            /\ \A k \in 1..Len(gr_ret[1]) :
                 IsLeadingToken(gr_ret[1][k], lines[NthOf(hits, k)])

\* The same failing test twice, and a marker line with another prefix.
C4_Witness ==
    /\ gr_pc = "done"
    /\ gr_args.test_path = PrefixT
    /\ \E i \in 1..Len(gr_args.log_lines) : gr_args.log_lines[i] = LineUaFailed
    /\ gr_ret[1] = <<PrefixT \o <<"a">>, PrefixT \o <<"a">>>>

(***************************************************************************)
(* Properties of main and of compare_failures_with_tool.                   *)
(***************************************************************************)
\* The first loop of compare_failures_with_tool has run in this run.
Parsed == \A i \in 1..Len(jobs) : jobs[i].failed_logs # None

NoticesFor(id) ==
    Cardinality({k \in 1..Len(m_out.notices) : m_out.notices[k].id = id})

KeysOf(d) == {d[k].key : k \in 1..Len(d)}

C2_State ==
    (m_pc # "idle" /\ Parsed) =>
        /\ \A i \in 1..Len(jobs) :
             IF jobs[i].log # None /\ ~HasBanner(jobs[i].log[1])
             THEN /\ jobs[i].failed_logs[1] = <<>>
                  /\ NoticesFor(jobs[i].id) = 1
             ELSE NoticesFor(jobs[i].id) = 0
        /\ all_keys = UNION {KeysOf(jobs[i].failed_logs[1]) : i \in 1..Len(jobs)}
        /\ m_pc = "done" => keys_done = all_keys

\* The first loop of compare_failures_with_tool ends normally and leaves
\* every job with a mapping: one entry per marker for a well-formed log
\* with distinct names.
C2_Step ==
    m_pc = "parse" =>
        /\ m_pc' = "keys"
        /\ m_error' = NoError
        /\ \A i \in 1..Len(jobs) :
             /\ jobs'[i].failed_logs # None
             /\ jobs'[i].log = jobs[i].log
             /\ (jobs[i].log # None /\ WellFormed(jobs[i].log[1])
                   /\ DistinctNames(AfterEarliestBanner(jobs[i].log[1]))) =>
                    Len(jobs'[i].failed_logs[1]) =
                        Cardinality(MarksOf(AfterEarliestBanner(jobs[i].log[1])))

\* C2: a log without banner gives an empty mapping and exactly one notice
\* naming the job, and parse_log does not raise; in
\* compare_failures_with_tool that job gets an empty failed_logs and every
\* other job is still parsed and compared.
C2_NoBanner == [](C2_State) /\ [][C2_Step]_vars

\* A job without banner next to a job whose log was segmented, all keys
\* compared.
C2_Witness ==
    /\ m_pc = "done"
    /\ Parsed
    /\ \E i, j \in 1..Len(jobs) :
         /\ jobs[i].log # None
         /\ ~HasBanner(jobs[i].log[1])
         /\ NoticesFor(jobs[i].id) = 1
         /\ j > i
         /\ Len(jobs[j].failed_logs[1]) = 2
    /\ keys_done = all_keys

\* The distinct texts the jobs captured for key.
TextsOf(key) ==
    {JoinLines(DictGet(jobs[i].failed_logs[1], key)) :
        i \in {i \in 1..Len(jobs) : DictHas(jobs[i].failed_logs[1], key)}}

CallsFor(key) == {k \in 1..Len(invocations) : invocations[k].key = key}

FileTexts(inv) == {inv.files[f].content : f \in 1..Len(inv.files)}

CapAllowsDiff == cfg.max_diff = None \/ cfg.max_diff[1] >= 2

Retained(key) ==
    IF cfg.max_diff # None /\ cfg.max_diff[1] < Cardinality(TextsOf(key))
    THEN cfg.max_diff[1] ELSE Cardinality(TextsOf(key))

C6_FailureReportOrder ==
    m_out.failure_report # None =>
        LET r == m_out.failure_report[1]
        IN  /\ Len(r) = Len(failed_tests)
            /\ \A i \in 1..Len(failed_tests) :
                 \E p \in 1..Len(r) :
                     /\ r[p] = failed_tests[i]
                     /\ \A q \in 1..Len(r) : r[q].key = r[p].key => q = p
            /\ \A p \in 1..(Len(r) - 1) :
                 \/ r[p].val > r[p + 1].val
                 \/ r[p].val = r[p + 1].val /\ StrLess(r[p].key, r[p + 1].key)

\* Two tests of equal count, tallied in the order b, a and reported a, b.
C6_Witness ==
    /\ m_out.failure_report # None
    /\ Len(failed_tests) = 2
    /\ failed_tests[1].key = PrefixT \o <<"b">>
    /\ failed_tests[1].val = failed_tests[2].val
    /\ m_out.failure_report[1][1].key = PrefixT \o <<"a">>

PositionOf(id) == CHOOSE i \in 1..Len(jobs) : jobs[i].id = id

\* C7: a fetch error for one job does not abort the run: every later failed
\* or errored job still gets its log and the reports are still printed.
C7_FetchErrorIsolated ==
    m_error.kind = "fetch" =>
        /\ m_pc # "aborted"
        /\ m_pc = "done" =>
             /\ \A i \in (PositionOf(m_error.job) + 1)..Len(jobs) :
                    jobs[i].state \in {"failed", "errored"} => jobs[i].log # None
             /\ cfg.count_failed => m_out.failure_report # None

FailingIds == {jobs[i].id : i \in {i \in 1..Len(jobs) :
                                     jobs[i].state \in {"failed", "errored"}}}

\* This run follows a complete run that found every failing job's log in
\* the cache.
AfterCachedRun ==
    /\ prev # None
    /\ prev[1].ended = "done"
    /\ FailingIds \subseteq prev[1].cached_at_start

\* C8: a run after a run that found every failing job's log in the cache
\* fetches nothing and ends with the same tallies and the same set of tool
\* invocations.
C8_Idempotent ==
    AfterCachedRun =>
        /\ fetched = {}
        /\ m_error.kind # "fetch"
        /\ m_pc = "done" =>
             /\ failed_tests = prev[1].failed_tests
             /\ skipped_tests = prev[1].skipped_tests
             /\ SeqToSet(invocations) = prev[1].invocations

C8_Witness ==
    /\ AfterCachedRun
    /\ m_pc = "done"
    /\ Len(failed_tests) = 2
    /\ skipped_tests # <<>>
    /\ Len(invocations) = 2

\* C9: the temporary files of a test are gone once its tool call is over: no
\* file of an earlier test exists while a later test is being processed, and
\* none after the function ended.
C9_TempFilesReleased ==
    /\ m_pc = "collected" =>
          \A f \in 1..Len(log_fs) : log_fs[f].key = cur_key[1]
    /\ m_pc \in {"done", "aborted"} => log_fs = <<>>

C10_State ==
    \A i \in 1..Len(jobs) :
        jobs[i].state \notin {"failed", "errored"} =>
            /\ jobs[i].log = None
            /\ jobs[i].id \notin fetched
            /\ cache[jobs[i].id] # None => jobs[i].id \in cached_at_start
            /\ jobs[i].failed_logs # None => jobs[i].failed_logs[1] = <<>>
            /\ \A k \in 1..Len(logs) : logs[k].key # jobs[i].id
            /\ \A f \in 1..Len(log_fs) : log_fs[f].id # jobs[i].id

C10_Step ==
    (m_pc = "loop" /\ m_j <= Len(jobs)
        /\ jobs[m_j].state \notin {"failed", "errored"}) =>
        /\ m_pc' = "loop"
        /\ cache' = cache
        /\ fetched' = fetched
        /\ failed_tests' = failed_tests
        /\ skipped_tests' = skipped_tests
        /\ jobs' = jobs

\* C10: for a job that is neither failed nor errored main fetches no log,
\* writes no cache file, greps nothing and leaves both tallies alone; the job
\* never gets a log, so the differ gives it an empty failed_logs and takes no
\* variant and no temporary file from it.
C10_NonFailingExcluded == [](C10_State) /\ [][C10_Step]_vars

\* A passed job without cache file next to a processed failing job, after
\* the differ ran.
C10_Witness ==
    /\ m_pc = "done"
    /\ Parsed
    /\ failed_tests # <<>>
    /\ \E i \in 1..Len(jobs) :
         /\ jobs[i].state = "passed"
         /\ cache[jobs[i].id] = None
         /\ jobs[i].failed_logs = <<(<<>>)>>

(***************************************************************************)
(* Properties of the collection loop.                                      *)
(***************************************************************************)
\* C11: at every step of the collection loop for one test name the retained
\* mapping holds pairwise distinct texts under pairwise distinct job ids,
\* and with a cap max_diff = N it never holds more than N texts, for every
\* N, 0 and 1 included.
C11_DedupAndCap ==
    c_pc # "idle" =>
        /\ \A i, j \in 1..Len(logs) :
               i # j => logs[i].val # logs[j].val /\ logs[i].key # logs[j].key
        /\ cfg.max_diff # None => Len(logs) <= cfg.max_diff[1]

\* The jobs that have an entry for key.
JobsWith(key) ==
    {i \in 1..Len(jobs) : DictHas(jobs[i].failed_logs[1], key)}

\* The text job i captured for key.
TextOfJob(i, key) == JoinLines(DictGet(jobs[i].failed_logs[1], key))

\* The jobs that are the first, in iteration order, to produce their text.
FirstProducers(key) ==
    {i \in JobsWith(key) :
        \A j \in JobsWith(key) : j < i => TextOfJob(j, key) # TextOfJob(i, key)}

\* C20: with a cap max_diff = N >= 1 and D distinct texts for the test name
\* the loop ends with exactly the first min(N, D) distinct texts in job
\* order, each under the id of the first job that produced it; a job whose
\* text is already retained changes nothing and does not end the loop.
C20_State ==
    (c_pc = "done" /\ cfg.max_diff # None /\ cfg.max_diff[1] >= 1) =>
        LET key    == cur_key[1]
            firsts == FirstProducers(key)
            kept   == IF cfg.max_diff[1] < Cardinality(firsts)
                      THEN cfg.max_diff[1] ELSE Cardinality(firsts)
        IN  /\ Len(logs) = kept
            /\ \A k \in 1..kept :
                 /\ logs[k].key = jobs[NthOf(firsts, k)].id
                 /\ logs[k].val = TextOfJob(NthOf(firsts, k), key)

C20_Step ==
    (c_pc = "loop" /\ c_i <= Len(jobs)
        /\ c_i \in JobsWith(cur_key[1])
        /\ TextOfJob(c_i, cur_key[1]) \in DictValues(logs)) =>
        /\ logs' = logs
        /\ c_pc' = "loop"
        /\ c_i' = c_i + 1

C20_FirstDistinctTexts == [](C20_State) /\ [][C20_Step]_vars

\* Cap 2: the second job repeats the text of the first (from other lines),
\* the third job brings the second text.
C20_Witness ==
    /\ c_pc = "done"
    /\ cfg.max_diff = <<2>>
    /\ Len(jobs) >= 3
    /\ {1, 2, 3} \subseteq JobsWith(cur_key[1])
    /\ TextOfJob(2, cur_key[1]) = TextOfJob(1, cur_key[1])
    /\ DictGet(jobs[2].failed_logs[1], cur_key[1])
         # DictGet(jobs[1].failed_logs[1], cur_key[1])
    /\ Len(logs) = 2
    /\ logs[1].key = jobs[1].id
    /\ logs[2].key = jobs[3].id

(***************************************************************************)
(* Properties of the cache and of the tallies of main.                     *)
(***************************************************************************)
C15_State == fetched \cap cached_at_start = {}

C15_Step ==
    /\ \A id \in DOMAIN cache : cache[id] # None => cache'[id] = cache[id]
    /\ (m_pc = "loop" /\ m_j <= Len(jobs)
          /\ jobs[m_j].state \in {"failed", "errored"}
          /\ cache[jobs[m_j].id] # None) =>
            /\ fetched' = fetched
            /\ m_error' = m_error
            /\ m_pc' = "loop"
            /\ jobs'[m_j].log = <<ReadCacheFile(cache[jobs[m_j].id][1])>>

\* C15: a cache file that exists is never rewritten or deleted, in this run
\* or a later one; a job that has one gets its lines from the file and is
\* not fetched, whatever the provider holds.
C15_CacheAuthoritative == [](C15_State) /\ [][C15_Step]_vars

\* A later run in which a job's file differs from the provider's log; the
\* job got the lines of the file and the file is as it was.
C15_Witness ==
    /\ prev # None
    /\ m_pc = "done"
    /\ \E i \in 1..Len(jobs) :
         /\ jobs[i].id \in cached_at_start
         /\ jobs[i].id \in prev[1].cached_at_start
         /\ cache[jobs[i].id] # <<ProviderBody(provider[jobs[i].id])>>
         /\ jobs[i].log = <<ReadCacheFile(cache[jobs[i].id][1])>>
         /\ jobs[i].log # <<get_log(ProviderReply(provider[jobs[i].id], "str"))>>

\* What the grep returns for every job that has its log.
GrepResults(markers) ==
    [i \in {i \in 1..Len(jobs) : jobs[i].log # None} |->
        grep_log_for_tests(jobs[i].log[1], cfg.test_prefix, markers,
                           FALSE).failed_tests]

\* counter lists exactly the identifiers the grep returns, each once, with
\* the number of entries equal to it over all the jobs: one for every
\* matching line of every job.
TallyIs(counter, markers) ==
    LET res      == GrepResults(markers)
        names    == UNION {SeqToSet(res[i]) : i \in DOMAIN res}
        total(t) == Cardinality(UNION {{<<i, k>> :
                                           k \in {k \in 1..Len(res[i]) :
                                                     res[i][k] = t}} :
                                       i \in DOMAIN res})
    IN  /\ KeysOf(counter) = names
        /\ Len(counter) = Cardinality(names)
        /\ \A k \in 1..Len(counter) : counter[k].val = total(counter[k].key)

\* The per-job loop of main has just ended.
LoopEnded == m_pc = "loop" /\ m_j > Len(jobs)

C16_State ==
    /\ ~cfg.skipped => skipped_tests = <<>>
    /\ LoopEnded =>
        /\ \A i \in 1..Len(jobs) :
               jobs[i].log # None <=> jobs[i].state \in {"failed", "errored"}
        /\ TallyIs(failed_tests, <<FAILED, ERROR>>)
        /\ cfg.skipped => TallyIs(skipped_tests, <<SKIPPED>>)

\* What follows the loop in the same run changes neither the tallies nor
\* the logs they were counted from.
C16_Step ==
    (LoopEnded \/ m_pc \in {"parse", "keys", "collected"}) =>
        /\ m_pc' # "loop"
        /\ failed_tests' = failed_tests
        /\ skipped_tests' = skipped_tests
        /\ \A i \in 1..Len(jobs) : jobs'[i].log = jobs[i].log

\* C16: when the per-job loop of main has ended every failed or errored
\* job, and no other, has its log, the failure tally of a test is the number
\* of entries equal to it that the failure grep returns over these jobs,
\* and the skip tally likewise with the SKIPPED marker when skipped is set;
\* the rest of the run leaves tallies and logs as they are; when skipped is
\* not set the skip tally is empty in every state.
C16_TalliesAreSums == [](C16_State) /\ [][C16_Step]_vars

\* After the loop: a test that failed in two jobs counts 2, and the skip
\* tally is filled.
C16_Witness ==
    /\ m_pc = "loop"
    /\ m_j > Len(jobs)
    /\ cfg.skipped
    /\ \E k \in 1..Len(failed_tests) : failed_tests[k].val = 2
    /\ \E k \in 1..Len(failed_tests) : failed_tests[k].val = 1
    /\ skipped_tests # <<>>

\* C17: the skip report lists the skipped tests by descending count, tests
\* of equal count by ascending identifier.
C17_SkipReportOrder ==
    m_out.skip_report # None =>
        LET r == m_out.skip_report[1]
        IN  \A p \in 1..(Len(r) - 1) :
                \/ r[p].val > r[p + 1].val
                \/ r[p].val = r[p + 1].val /\ StrLess(r[p].key, r[p + 1].key)

\* C19: the lines read back from the cache file that main wrote for a
\* fetched log are the lines get_log returned, which the job carries.
C19_CacheRoundTrip ==
    \A i \in 1..Len(jobs) :
        (jobs[i].id \in fetched /\ jobs[i].log # None) =>
            ReadCacheFile(cache[jobs[i].id][1]) = jobs[i].log[1]

(***************************************************************************)
(* The identifier grep_log_for_tests records.                              *)
(***************************************************************************)
\* r is the first whitespace-delimited token of line.
IsFirstToken(r, line) ==
    /\ r # <<>>
    /\ StartsWith(line, r)
    /\ \A i \in 1..Len(r) : r[i] \notin Whitespace
    /\ Len(r) = Len(line) \/ line[Len(r) + 1] \in Whitespace

\* C18: every identifier grep_log_for_tests returns is the first
\* whitespace-delimited token of its line, space or tab after it, and
\* starts with the prefix.
C18_FirstToken ==
    gr_pc = "done" =>
        LET lines == gr_args.log_lines
            hits  == HitLines(lines, gr_args.test_path, GrepMarkers)
        IN  \A k \in 1..Len(gr_ret[1]) :
                /\ k <= Cardinality(hits)
                /\ IsFirstToken(gr_ret[1][k], lines[NthOf(hits, k)])
                /\ StartsWith(gr_ret[1][k], gr_args.test_path)

=============================================================================
